---- MODULE Spec2Model ----
(***************************************************************************)
(* Model of the combo crate (src/src/lib.rs): the Combinator that walks    *)
(* the k-element index tuples of a borrowed slice, and the CombinationIter *)
(* view that yields the referenced elements of one tuple.                  *)
(*                                                                         *)
(* Positions are 0-based values as in the source; TLA+ sequences are       *)
(* 1-based, so position i of the source is entry i+1 of `indices`, and     *)
(* element seq[p] of the source is entry p+1 of `seq`.                     *)
(*                                                                         *)
(* usize arithmetic: `seq_len - k + 1 + i` never underflows because        *)
(* construction enforces k <= seq_len, and `indices[i] += 1` stays far     *)
(* below 2^64 for every run bounded by MaxExtra, so plain integers are     *)
(* exact here.                                                             *)
(***************************************************************************)
EXTENDS Integers, Sequences, FiniteSets

\* Bounds of the model.
MaxN == 5          \* longest source slice
MaxElem == 1       \* elements of the slice are drawn from 0..MaxElem
MaxExtra == 3      \* calls to Combinator::next after its first None

VARIABLES
    seq,        \* the borrowed slice (Combinator.seq, the `seq` argument)
    len,        \* the `len` argument of combinations
    pc,         \* "new" | "ready" | "panic_len" | "panic_index"
    indices,    \* Combinator.indices
    inited,     \* Combinator.inited
    viewLive,   \* a CombinationIter returned by the last next() exists
    it,         \* CombinationIter.it: how many entries of indices it consumed
    pulled,     \* elements yielded so far by the live view
    pullRes,    \* outcome of the last pull: "fresh" | "some" | "none" | "panic"
    results,    \* one record per call of Combinator::next, in call order
    scanned     \* positions scanned by the last call of Combinator::next

vars == <<seq, len, pc, indices, inited, viewLive, it, pulled, pullRes,
          results, scanned>>

\* A construction that starts the tuple at 1 instead of 0.
Range0_FromOne(m) ==
    [j \in 1..m |-> j]

\* (0..len).collect()
Range0(m) ==
    [j \in 1..m |-> j - 1]

\* indices[i] += 1
Incr(v) ==
    v + 1

\* An overflow test whose limit is one too small.
Overflowed_OffByOne(v, seq_len, k, i) ==
    v = seq_len - k + i

\* indices[i] == seq_len - k + 1 + i
Overflowed(v, seq_len, k, i) ==
    v = seq_len - k + 1 + i

\* A reset that copies the left neighbour without adding one.
RECURSIVE ResetChildren_NoPlusOne(_, _, _)
ResetChildren_NoPlusOne(ind, j, k) ==
    IF j >= k THEN ind
    ELSE ResetChildren_NoPlusOne([ind EXCEPT ![j + 1] = ind[j]], j + 1, k)

\* for j in i + 1..k { indices[j] = indices[j - 1] + 1; }   (j is 0-based)
RECURSIVE ResetChildren(_, _, _)
ResetChildren(ind, j, k) ==
    IF j >= k THEN ind
    ELSE ResetChildren([ind EXCEPT ![j + 1] = ind[j] + 1], j + 1, k)

\* A scan that resets the children from position 1 instead of i + 1.
RECURSIVE Scan_ResetFromOne(_, _, _)
Scan_ResetFromOne(ind, seq_len, i) ==
    IF i < 0
    THEN [indices |-> ind, some |-> FALSE, scanned |-> << >>]
    ELSE LET k == Len(ind)
             inc == [ind EXCEPT ![i + 1] = Incr(@)]
             step == [pos |-> i, val |-> inc[i + 1]]
         IN  IF Overflowed(inc[i + 1], seq_len, k, i)
             THEN LET r == Scan_ResetFromOne(inc, seq_len, i - 1)
                  IN  [r EXCEPT !.scanned = <<step>> \o @]
             ELSE [indices |-> ResetChildren(inc, 1, k),
                   some |-> TRUE,
                   scanned |-> <<step>>]

\* A scan that undoes its increments before it returns None.
RECURSIVE Scan_Restoring(_, _, _)
Scan_Restoring(ind, seq_len, i) ==
    IF i < 0
    THEN [indices |-> [q \in 1..Len(ind) |-> ind[q] - 1],
          some |-> FALSE, scanned |-> << >>]
    ELSE LET k == Len(ind)
             inc == [ind EXCEPT ![i + 1] = Incr(@)]
             step == [pos |-> i, val |-> inc[i + 1]]
         IN  IF Overflowed(inc[i + 1], seq_len, k, i)
             THEN LET r == Scan_Restoring(inc, seq_len, i - 1)
                  IN  [r EXCEPT !.scanned = <<step>> \o @]
             ELSE [indices |-> ResetChildren(inc, i + 1, k),
                   some |-> TRUE,
                   scanned |-> <<step>>]

\* for i in (0..k).rev() { ... } return None;   entered at position i.
\* Yields the indices left behind, whether a view is returned, and the
\* positions visited with their incremented values.
RECURSIVE Scan(_, _, _)
Scan(ind, seq_len, i) ==
    IF i < 0
    THEN [indices |-> ind, some |-> FALSE, scanned |-> << >>]
    ELSE LET k == Len(ind)
             inc == [ind EXCEPT ![i + 1] = Incr(@)]
             step == [pos |-> i, val |-> inc[i + 1]]
         IN  IF Overflowed(inc[i + 1], seq_len, k, i)
             THEN LET r == Scan(inc, seq_len, i - 1)
                  IN  [r EXCEPT !.scanned = <<step>> \o @]
             ELSE [indices |-> ResetChildren(inc, i + 1, k),
                   some |-> TRUE,
                   scanned |-> <<step>>]

\* A length check that also rejects len = seq.len().
LenTooLong_Inclusive(l, seq_len) ==
    l >= seq_len

\* if len > seq.len() { panic!(...) }
LenTooLong(l, seq_len) ==
    l > seq_len

\* Calls of Combinator::next made after the first one that returned None.
CallsAfterNone(rs) ==
    IF \E j \in 1..Len(rs) : ~rs[j].some
    THEN Len(rs) - (CHOOSE j \in 1..Len(rs) :
                        ~rs[j].some /\ \A h \in 1..(j - 1) : rs[h].some)
    ELSE 0

Init ==
    /\ \E n \in 0..MaxN : seq \in [1..n -> 0..MaxElem]
    /\ len \in 0..(MaxN + 1)
    /\ pc = "new"
    /\ indices = << >>
    /\ inited = FALSE
    /\ viewLive = FALSE
    /\ it = 0
    /\ pulled = << >>
    /\ pullRes = "fresh"
    /\ results = << >>
    /\ scanned = << >>

\* pub fn combinations(seq, len) -> Combinator
combinations ==
    /\ pc = "new"
    /\ IF LenTooLong(len, Len(seq))
       THEN /\ pc' = "panic_len"
            /\ UNCHANGED <<indices, inited>>
       ELSE /\ pc' = "ready"
            /\ indices' = Range0(len)
            /\ inited' = FALSE
    /\ UNCHANGED <<seq, len, viewLive, it, pulled, pullRes, results, scanned>>

\* A first call that advances the tuple like every later call.
Combinator_next_first_Advances ==
    /\ pc = "ready"
    /\ ~inited
    /\ CallsAfterNone(results) < MaxExtra
    /\ inited' = TRUE
    /\ LET r == Scan(indices, Len(seq), Len(indices) - 1)
       IN  /\ indices' = r.indices
           /\ results' = Append(results,
                  [some |-> r.some, idx |-> r.indices, pre |-> indices])
           /\ scanned' = r.scanned
           /\ viewLive' = r.some
    /\ it' = 0
    /\ pulled' = << >>
    /\ pullRes' = "fresh"
    /\ UNCHANGED <<seq, len, pc>>

\* A first call that forgets to set the flag.
Combinator_next_first_NoFlag ==
    /\ pc = "ready"
    /\ ~inited
    /\ CallsAfterNone(results) < MaxExtra
    /\ inited' = inited
    /\ indices' = indices
    /\ results' = Append(results, [some |-> TRUE, idx |-> indices, pre |-> indices])
    /\ scanned' = << >>
    /\ viewLive' = TRUE
    /\ it' = 0
    /\ pulled' = << >>
    /\ pullRes' = "fresh"
    /\ UNCHANGED <<seq, len, pc>>

\* Combinator::next, first call: if !self.inited { self.inited = true; return Some(..) }
Combinator_next_first ==
    /\ pc = "ready"
    /\ ~inited
    /\ CallsAfterNone(results) < MaxExtra
    /\ inited' = TRUE
    /\ indices' = indices
    /\ results' = Append(results, [some |-> TRUE, idx |-> indices, pre |-> indices])
    /\ scanned' = << >>
    /\ viewLive' = TRUE
    /\ it' = 0
    /\ pulled' = << >>
    /\ pullRes' = "fresh"
    /\ UNCHANGED <<seq, len, pc>>

\* Combinator::next, later calls: the scan from position k-1 down to 0.
Combinator_next_scan ==
    /\ pc = "ready"
    /\ inited
    /\ CallsAfterNone(results) < MaxExtra
    /\ LET r == Scan(indices, Len(seq), Len(indices) - 1)
       IN  /\ indices' = r.indices
           /\ results' = Append(results,
                  [some |-> r.some, idx |-> r.indices, pre |-> indices])
           /\ scanned' = r.scanned
           /\ viewLive' = r.some
    /\ it' = 0
    /\ pulled' = << >>
    /\ pullRes' = "fresh"
    /\ UNCHANGED <<seq, len, pc, inited>>

\* The borrow of `indices` held by a view ends before next() can be called
\* again, so each call starts with no live view and replaces it.
Combinator_next ==
    \/ Combinator_next_first
    \/ Combinator_next_scan

\* A pull that clears the entry of indices it has just read.
CombinationIter_next_Consumes ==
    /\ pc = "ready"
    /\ viewLive
    /\ IF it < Len(indices)
       THEN /\ it' = it + 1
            /\ indices' = [indices EXCEPT ![it + 1] = 0]
            /\ IF indices[it + 1] < Len(seq)
               THEN /\ pulled' = Append(pulled, seq[indices[it + 1] + 1])
                    /\ pullRes' = "some"
                    /\ pc' = pc
               ELSE /\ pulled' = pulled
                    /\ pullRes' = "panic"
                    /\ pc' = "panic_index"
       ELSE /\ pullRes' = "none"
            /\ UNCHANGED <<it, pulled, pc, indices>>
    /\ UNCHANGED <<seq, len, inited, viewLive, results, scanned>>

\* CombinationIter::next: if let Some(i) = self.it.next() { Some(&self.seq[*i]) } else { None }
CombinationIter_next ==
    /\ pc = "ready"
    /\ viewLive
    /\ IF it < Len(indices)
       THEN /\ it' = it + 1
            /\ IF indices[it + 1] < Len(seq)
               THEN /\ pulled' = Append(pulled, seq[indices[it + 1] + 1])
                    /\ pullRes' = "some"
                    /\ pc' = pc
               ELSE \* index out of bounds: the slice access panics
                    /\ pulled' = pulled
                    /\ pullRes' = "panic"
                    /\ pc' = "panic_index"
       ELSE /\ pullRes' = "none"
            /\ UNCHANGED <<it, pulled, pc>>
    /\ UNCHANGED <<seq, len, indices, inited, viewLive, results, scanned>>

Next ==
    \/ combinations
    \/ Combinator_next
    \/ CombinationIter_next

Spec == Init /\ [][Next]_vars

\* The caller of the doc example and of the tests keeps calling next() in a
\* loop (`while let Some(combo) = combinator.next()`), so a call that can be
\* made is eventually made.
FairSpec == Spec /\ WF_vars(Combinator_next)

(***************************************************************************)
(* Vocabulary of the properties.                                           *)
(***************************************************************************)
n == Len(seq)

Constructed == pc \in {"ready", "panic_index"}

RECURSIVE Choose(_, _)
Choose(a, b) ==
    IF b = 0 THEN 1
    ELSE IF b > a THEN 0
    ELSE Choose(a - 1, b - 1) + Choose(a - 1, b)

KSubsets(a, b) == {S \in SUBSET (0..(a - 1)) : Cardinality(S) = b}

IdxSet(t) == {t[j] : j \in 1..Len(t)}

Min(a, b) == IF a < b THEN a ELSE b

\* 0 <= t[0] < t[1] < ... < t[k-1] < a, with exactly b entries
ValidTuple(t, a, b) ==
    /\ Len(t) = b
    /\ \A j \in 1..Len(t) : t[j] >= 0 /\ t[j] < a
    /\ \A j \in 1..(Len(t) - 1) : t[j] < t[j + 1]

\* s is strictly below t in lexicographic order (equal lengths)
LexLess(s, t) ==
    \E j \in 1..Len(s) :
        /\ s[j] < t[j]
        /\ \A h \in 1..(j - 1) : s[h] = t[h]

FirstTuple(b) == [j \in 1..b |-> j - 1]
LastTuple(a, b) == [j \in 1..b |-> a - b + j - 1]

\* position of the first call that returned None, 0 if there is none yet
FirstNone ==
    IF \E j \in 1..Len(results) : ~results[j].some
    THEN CHOOSE j \in 1..Len(results) :
             ~results[j].some /\ \A h \in 1..(j - 1) : results[h].some
    ELSE 0

\* C1: for every n and k <= n, the calls of next() up to the first None are
\* exactly C(n,k) views followed by None; their index tuples are pairwise
\* distinct k-element subsets of 0..n-1 and together they are all of them.
C1_DrainYieldsAllCombinations ==
    Constructed =>
        LET c == Choose(n, len)
            m == Min(Len(results), c)
        IN  /\ \A j \in 1..m :
                   /\ results[j].some
                   /\ Len(results[j].idx) = len
                   /\ IdxSet(results[j].idx) \in KSubsets(n, len)
            /\ \A a, b \in 1..m :
                   a # b => IdxSet(results[a].idx) # IdxSet(results[b].idx)
            /\ Len(results) > c => ~results[c + 1].some
            /\ Len(results) >= c =>
                   {IdxSet(results[j].idx) : j \in 1..c} = KSubsets(n, len)

C1_Witness ==
    /\ pc = "ready" /\ n = 5 /\ len = 2
    /\ Len(results) = 11
    /\ ~results[11].some
    /\ \A j \in 1..10 : results[j].some

\* C2: once a call of next() has returned None, every later call of next()
\* on the same Combinator returns None as well.
C2_ExhaustionIsTerminal ==
    \A a, b \in 1..Len(results) :
        (a < b /\ ~results[a].some) => ~results[b].some

\* C3: of two consecutive calls of next() that both return a view, the
\* second view's index tuple is strictly lexicographically greater.
C3_StrictlyLexIncreasing ==
    \A j \in 1..(Len(results) - 1) :
        (results[j].some /\ results[j + 1].some)
            => LexLess(results[j].idx, results[j + 1].idx)

C3_Witness ==
    /\ n = 5 /\ len = 3 /\ Len(results) = 10
    /\ [j \in 1..10 |-> results[j].idx] =
           << <<0, 1, 2>>, <<0, 1, 3>>, <<0, 1, 4>>, <<0, 2, 3>>, <<0, 2, 4>>,
              <<0, 3, 4>>, <<1, 2, 3>>, <<1, 2, 4>>, <<1, 3, 4>>, <<2, 3, 4>> >>
    /\ \A j \in 1..10 : results[j].some

\* C4: whenever next() returns a view, the tuple the view is bound to has
\* exactly k entries with 0 <= indices[0] < ... < indices[k-1] < n.
C4_ViewTupleInRange ==
    viewLive => ValidTuple(indices, n, len)

\* C5: combinations(seq, len) panics exactly when len > seq.len(); the panic
\* happens inside the construction call, so no Combinator exists and no
\* combination is produced.
C5_PanicsIffTooLong ==
    (pc # "new") =>
        /\ (pc = "panic_len") <=> (len > n)
        /\ (pc = "panic_len") =>
               (results = << >> /\ indices = << >> /\ ~inited /\ ~viewLive)

C5_Witness ==
    pc = "panic_len" /\ len = n + 1 /\ n >= 1

\* C6: when k = n >= 1, the first next() returns the view over
\* [0,...,n-1] and every later call of next() returns None.
C6_FullLengthOnlyOnce ==
    (Constructed /\ len = n /\ n >= 1) =>
        \A j \in 1..Len(results) :
            IF j = 1
            THEN results[j].some /\ results[j].idx = FirstTuple(n)
            ELSE ~results[j].some

\* C7: when k = 0, the first next() returns a view that yields no element
\* and the second and every later call of next() returns None.
C7_EmptyOnlyOnce ==
    (Constructed /\ len = 0) =>
        /\ \A j \in 1..Len(results) :
               IF j = 1
               THEN results[j].some /\ results[j].idx = << >>
               ELSE ~results[j].some
        /\ pulled = << >>
        /\ pullRes \in {"fresh", "none"}

C7_Witness ==
    /\ len = 0 /\ n >= 1 /\ Len(results) = 1 + MaxExtra
    /\ ~results[2].some

\* C8: the first view is bound to [0,...,k-1]; next() returns None for the
\* first time only from the tuple [n-k,...,n-1], which is the tuple of the
\* last view returned before that None.
C8_FirstAndLastTuple ==
    Constructed =>
        /\ Len(results) >= 1 =>
               (results[1].some /\ results[1].idx = FirstTuple(len))
        /\ FirstNone # 0 =>
               /\ FirstNone >= 2
               /\ results[FirstNone].pre = LastTuple(n, len)
               /\ results[FirstNone - 1].some
               /\ results[FirstNone - 1].idx = LastTuple(n, len)

C8_Witness ==
    /\ n = 5 /\ len = 3 /\ FirstNone = 11
    /\ results[1].idx = <<0, 1, 2>>
    /\ results[10].idx = <<2, 3, 4>>

\* C9: a view returned by next() yields exactly k element references: pull
\* j returns source[indices[j]], and every pull after the k-th returns None.
C9_ViewYieldsKElements ==
    /\ pullRes # "panic"
    /\ viewLive =>
           /\ Len(pulled) = it
           /\ it <= len
           /\ \A j \in 1..it :
                  /\ indices[j] < n
                  /\ pulled[j] = seq[indices[j] + 1]
           /\ (pullRes = "none") => (it = len)

\* C10: at every scanned position i the incremented indices[i] is at most
\* n - k + 1 + i, so the code's test (== limit) and the spec's test
\* (not < limit) decide alike.
C10_OverflowTestsAgree ==
    \A j \in 1..Len(scanned) :
        LET limit == n - len + 1 + scanned[j].pos
        IN  (scanned[j].val = limit) <=> ~(scanned[j].val < limit)

\* the rightmost 1-based entry of t that is below its final value
RightmostBelow(t, a) ==
    CHOOSE p \in 1..Len(t) :
        /\ t[p] < a - Len(t) + p - 1
        /\ \A q \in (p + 1)..Len(t) : ~(t[q] < a - Len(t) + q - 1)

\* entries left of p kept, entry p plus one, consecutive values after it
Successor(t, a) ==
    LET p == RightmostBelow(t, a)
    IN  [q \in 1..Len(t) |->
            IF q < p THEN t[q] ELSE t[p] + 1 + (q - p)]

\* the ascending tuple of a set of positions
RECURSIVE SetToTuple(_)
SetToTuple(S) ==
    IF S = {} THEN << >>
    ELSE LET m == CHOOSE x \in S : \A y \in S : x <= y
         IN  <<m>> \o SetToTuple(S \ {m})

AscendingTuples(a, b) ==
    {SetToTuple(S) : S \in KSubsets(a, b)}

\* C11 (stated of the latest call; every call is the latest one in the
\* state it leads to): a non-first call of next() from a valid tuple t other than
\* [n-k,...,n-1] returns the immediate lexicographic successor of t among
\* the k-subsets: left of the rightmost position i with t[i] < n-k+i nothing
\* changes, position i becomes t[i]+1, and the positions after i hold
\* consecutive values.
C11_ImmediateSuccessor ==
    \A j \in {Len(results)} \ {0, 1} :
        LET t == results[j].pre
        IN  (ValidTuple(t, n, len) /\ t # LastTuple(n, len)) =>
                /\ results[j].some
                /\ results[j].idx = Successor(t, n)
                /\ ValidTuple(results[j].idx, n, len)
                /\ LexLess(t, results[j].idx)
                /\ ~\E u \in AscendingTuples(n, len) :
                       LexLess(t, u) /\ LexLess(u, results[j].idx)

C11_Witness ==
    /\ n = 5 /\ len = 3 /\ Len(results) = 4
    /\ results[4].pre = <<0, 1, 4>>
    /\ results[4].idx = <<0, 2, 3>>
    /\ results[4].some

\* the step is a call of Combinator::next
IsNextCall == pc = "ready" /\ Len(results') = Len(results) + 1

\* the step is a pull from the live view
IsPull == pc = "ready" /\ viewLive /\ results' = results

\* C12: the first call of next() on a freshly constructed Combinator leaves
\* indices at [0,...,k-1], changes only the flag inited from false to true
\* and returns a view over the unchanged tuple; no later step sets the flag
\* back to false.
C12_FirstCallFrame ==
    [][/\ (IsNextCall /\ results = << >>) =>
              /\ ~inited /\ inited'
              /\ indices = FirstTuple(len)
              /\ indices' = indices
              /\ seq' = seq
              /\ results'[1] = [some |-> TRUE, idx |-> indices, pre |-> indices]
              /\ viewLive'
       /\ inited => inited']_vars

C12_Witness ==
    /\ pc = "ready" /\ n = 4 /\ len = 2
    /\ Len(results) = 1
    /\ inited
    /\ indices = <<0, 1>>
    /\ viewLive

\* C13: a pull from a view changes neither the source nor the enumerator's
\* indices or inited flag, only the view's cursor; no call of next() changes
\* the source or the number of entries of indices.
C13_PullAndNextFrame ==
    [][/\ IsPull =>
              /\ seq' = seq
              /\ indices' = indices
              /\ inited' = inited
              /\ it' \in {it, it + 1}
       /\ IsNextCall =>
              /\ seq' = seq
              /\ Len(indices') = Len(indices)
              /\ Len(indices') = len]_vars

C13_Witness ==
    /\ pc = "ready" /\ n = 4 /\ len = 2
    /\ Len(results) = 3
    /\ viewLive /\ it = 2 /\ pullRes = "some"
    /\ pulled = <<seq[1], seq[4]>>
    /\ indices = <<0, 3>>

\* C14: a call of next() that returns None from the last tuple
\* [n-k,...,n-1] leaves every one of the k indices incremented by one: the
\* stored tuple is [n-k+1,...,n], whose last entry n is out of range for the
\* source when k >= 1.
C14_NoneLeavesIncrementedTuple ==
    \A j \in 1..Len(results) :
        (~results[j].some /\ results[j].pre = LastTuple(n, len)) =>
            /\ results[j].idx = [q \in 1..len |-> results[j].pre[q] + 1]
            /\ results[j].idx = [q \in 1..len |-> n - len + q]
            /\ len >= 1 =>
                   /\ results[j].idx # results[j].pre
                   /\ results[j].idx[len] = n
                   /\ ~ValidTuple(results[j].idx, n, len)
            /\ j = Len(results) => indices = results[j].idx

C14_Witness ==
    /\ pc = "ready" /\ n = 5 /\ len = 3
    /\ Len(results) = 11
    /\ ~results[11].some
    /\ results[11].pre = <<2, 3, 4>>
    /\ indices = <<3, 4, 5>>

\* C15: repeatedly calling next() on a fresh Combinator eventually returns
\* None; the first None is the result of call number C(n,k)+1, and no call
\* scans more than k positions.
C15_EventuallyNone ==
    /\ [](Constructed =>
            LET c == Choose(n, len)
            IN  /\ Len(results) <= c => FirstNone = 0
                /\ Len(results) > c => FirstNone = c + 1
                /\ Len(scanned) <= len)
    /\ (pc = "ready") ~> (FirstNone = Choose(n, len) + 1)

C15_Witness ==
    /\ pc = "ready" /\ n = 5 /\ len = 2
    /\ FirstNone = 11
    /\ Len(results) = 11
    /\ Len(scanned) = 2

====
